---------------------------- MODULE Spec2Model ----------------------------
(* The scheduled-post dispatcher of src/app.py: the scheduled_posts table,  *)
(* the /schedule-post and /clear-scheduled request handlers, and the        *)
(* process_due_posts tick run by one or more dispatcher processes.          *)
EXTENDS Integers, Sequences, FiniteSets, TLC

(***************************************************************************)
(* Bounds of the model.                                                    *)
(***************************************************************************)
\* rows ever inserted (AUTOINCREMENT values handed out)
MaxJobs == 2
\* the wall clock runs over 0..MaxClock, in half time units
MaxClock == 2
\* the batch size of the due query: LIMIT 25 in the source, scaled down so
\* that a store of MaxJobs rows can hold more due rows than one batch takes
Limit == 2

\* rows of a store that the dispatcher finds when it starts
MaxStore == 3

\* the dispatcher processes whose ticks may overlap
Ticks == {"t1", "t2"}

(***************************************************************************)
(* Strings.  A string is a sequence of one-character strings; SQLite's     *)
(* BINARY collation and Python's str ordering compare code points.         *)
(***************************************************************************)
Chars == <<" ", "+", "-", ".", "0", "1", "2", "3", "4", "5", "6", "7", "8", "9", "Z", "a", "x">>

Ord(c) == CHOOSE i \in 1..Len(Chars) : Chars[i] = c

Digits == <<"0", "1", "2", "3", "4", "5", "6", "7", "8", "9">>

IsDigit(c) == \E i \in 1..10 : Digits[i] = c

DigitVal(c) == (CHOOSE i \in 1..10 : Digits[i] = c) - 1

\* a <= b for TEXT values: memcmp, and a proper prefix sorts first
RECURSIVE StrLeq(_, _)
StrLeq(a, b) ==
    IF a = <<>> THEN TRUE
    ELSE IF b = <<>> THEN FALSE
    ELSE IF Ord(Head(a)) < Ord(Head(b)) THEN TRUE
    ELSE IF Ord(Head(a)) > Ord(Head(b)) THEN FALSE
    ELSE StrLeq(Tail(a), Tail(b))

RECURSIVE LStrip(_)
LStrip(s) == IF s # <<>> /\ Head(s) = " " THEN LStrip(Tail(s)) ELSE s

RECURSIVE RStrip(_)
RStrip(s) == IF s # <<>> /\ s[Len(s)] = " " THEN RStrip(SubSeq(s, 1, Len(s) - 1)) ELSE s

\* str.strip()
Strip(s) == RStrip(LStrip(s))

(***************************************************************************)
(* JSON values of a request body: null, a string, or an object.            *)
(***************************************************************************)
Null == [type |-> "null", v |-> <<>>]

Str(s) == [type |-> "str", v |-> s]

Dict(d) == [type |-> "dict", v |-> d]

\* Python truthiness of a JSON value
Truthy(x) ==
    CASE x.type = "null" -> FALSE
      [] x.type = "str" -> x.v # <<>>
      [] x.type = "dict" -> DOMAIN x.v # {}

\* dict.get(k): None when the key is absent
DictGet(d, k) == IF k \in DOMAIN d THEN d[k] ELSE Null

(***************************************************************************)
(* Timestamps.  An instant is a number of half units since the earliest    *)
(* representable datetime; its ISO text is <unit>[.5]+0, where "+0" stands *)
(* for the "+00:00" offset and ".5" for a non-zero microsecond field.      *)
(***************************************************************************)
MaxInstant == 2 * 9 + 1

\* datetime.isoformat() of an aware UTC datetime: the fraction is omitted
\* when the microsecond field is zero
IsoFormat(t) ==
    <<Digits[(t \div 2) + 1]>> \o (IF t % 2 = 0 THEN <<>> ELSE <<".", "5">>) \o <<"+", "0">>

ParseError == [ok |-> FALSE, t |-> 0]

\* datetime.fromisoformat(v): <unit>[.<frac>][(+|-)<offset>]
FromIso(v) ==
    LET n == Len(v)
        frac(c) == IF c = "5" THEN 1 ELSE 0
        sign(c) == IF c = "+" THEN 1 ELSE -1
    IN  IF n = 1 /\ IsDigit(v[1])
            THEN [ok |-> TRUE, local |-> 2 * DigitVal(v[1]), aware |-> FALSE, off |-> 0]
        ELSE IF n = 3 /\ IsDigit(v[1]) /\ v[2] = "." /\ v[3] \in {"0", "5"}
            THEN [ok |-> TRUE, local |-> 2 * DigitVal(v[1]) + frac(v[3]), aware |-> FALSE, off |-> 0]
        ELSE IF n = 3 /\ IsDigit(v[1]) /\ v[2] \in {"+", "-"} /\ IsDigit(v[3])
            THEN [ok |-> TRUE, local |-> 2 * DigitVal(v[1]), aware |-> TRUE,
                  off |-> 2 * sign(v[2]) * DigitVal(v[3])]
        ELSE IF n = 5 /\ IsDigit(v[1]) /\ v[2] = "." /\ v[3] \in {"0", "5"}
                /\ v[4] \in {"+", "-"} /\ IsDigit(v[5])
            THEN [ok |-> TRUE, local |-> 2 * DigitVal(v[1]) + frac(v[3]), aware |-> TRUE,
                  off |-> 2 * sign(v[4]) * DigitVal(v[5])]
        ELSE [ok |-> FALSE, local |-> 0, aware |-> FALSE, off |-> 0]

\* mutant: the offset of an aware datetime dropped instead of converted
parse_iso_datetime_no_astimezone(value) ==
    IF ~Truthy(value) THEN ParseError
    ELSE IF value.type # "str" THEN ParseError
    ELSE
        LET v0 == Strip(value.v)
            v  == IF v0 # <<>> /\ v0[Len(v0)] = "Z"
                    THEN SubSeq(v0, 1, Len(v0) - 1) \o <<"+", "0">>
                    ELSE v0
            dt == FromIso(v)
        IN  IF ~dt.ok THEN ParseError ELSE [ok |-> TRUE, t |-> dt.local]

\* parse_iso_datetime(value): the UTC instant, or an exception
parse_iso_datetime(value) ==
    IF ~Truthy(value) THEN ParseError
    ELSE IF value.type # "str" THEN ParseError
    ELSE
        LET v0 == Strip(value.v)
            v  == IF v0 # <<>> /\ v0[Len(v0)] = "Z"
                    THEN SubSeq(v0, 1, Len(v0) - 1) \o <<"+", "0">>
                    ELSE v0
            dt == FromIso(v)
            \* a naive datetime is taken as UTC; astimezone subtracts the offset
            t  == dt.local - dt.off
        IN  IF ~dt.ok THEN ParseError
            ELSE IF t < 0 \/ t > MaxInstant THEN ParseError
            ELSE [ok |-> TRUE, t |-> t]

(***************************************************************************)
(* Optional text: SQL NULL / Python None, or a string.                     *)
(***************************************************************************)
None == [null |-> TRUE, s |-> ""]

Some(s) == [null |-> FALSE, s |-> s]

\* A stored cookies_json text: a JSON object with its members in order, a
\* JSON document of another kind, or a text that is no JSON document
JsonObject(members) == [kind |-> "object", members |-> members]

JsonArray == [kind |-> "array", members |-> <<>>]

JsonMalformed == [kind |-> "malformed", members |-> <<>>]

\* json.dumps of the two-token object written by schedule_post
JsonDumps(li_at, jsessionid) == JsonObject(<<<<"li_at", li_at>>, <<"JSESSIONID", jsessionid>>>>)

\* json.loads of a stored cookies_json that holds an object
JsonLoads(j) ==
    LET m == j.members
    IN  [k \in {m[i][1] : i \in 1..Len(m)} |-> (CHOOSE p \in {m[i] : i \in 1..Len(m)} : p[1] = k)[2]]

(***************************************************************************)
(* Inputs.                                                                 *)
(***************************************************************************)
\* "cookies" of a /schedule-post body
GoodCookies == Dict([li_at |-> Str(<<"a">>), JSESSIONID |-> Str(<<"x">>)])

CookieInputs ==
    { Null,
      Str(<<"x">>),
      Dict([li_at |-> Str(<<"a">>)]),
      Dict([JSESSIONID |-> Str(<<"x">>)]),
      Dict([li_at |-> Str(<<>>), JSESSIONID |-> Str(<<"x">>)]),
      Dict([li_at |-> Str(<<"a">>), JSESSIONID |-> Str(<<>>)]),
      GoodCookies,
      Dict([li_at |-> Str(<<"a">>), JSESSIONID |-> Str(<<"x">>), bcookie |-> Str(<<"Z">>)]) }

\* "text" of a /schedule-post body
TextInputs == { Null, Str(<<>>), Str(<<" ", " ">>), Str(<<" ", "a", " ">>), Str(<<"a">>) }

\* "run_at" of a /schedule-post body
RunAtInputs ==
    { Null, Str(<<>>), Str(<<"x">>), Str(<<"0", "-", "1", "Z">>),
      Str(<<"0", "+", "1">>),
      Str(<<"0", "Z">>),
      Str(<<" ", "0", ".", "5">>),
      Str(<<"0", ".", "0", "-", "0">>),
      Str(<<"2", ".", "5", "+", "1">>) }

\* the /schedule-post bodies submitted: every value of one field with the
\* other two fields good, and every run_at with a bundle carrying more
\* than the two tokens
Requests ==
    {<<c, Str(<<"a">>), Str(<<"0", "Z">>)>> : c \in CookieInputs}
        \cup {<<GoodCookies, x, Str(<<"0", "Z">>)>> : x \in TextInputs}
        \cup {<<GoodCookies, Str(<<" ", "a", " ">>), r>> : r \in RunAtInputs}

\* what create_post returns: success, or failure with the response text
\* (possibly empty) or the transport exception's message
RemoteResults ==
    { [success |-> TRUE, error |-> None],
      [success |-> FALSE, error |-> Some("403")],
      [success |-> FALSE, error |-> Some("")] }

\* str(e) of an exception raised while the API client is built
ApiErrors == { "exc" }

\* str(e) of the exceptions that lines 109-111 can raise before create_post
\* is reached: json.loads on a text that is no JSON document, cookies.items()
\* on a document that is no object, or the construction of the API client
InvokeErrors(j) ==
    IF j.kind = "malformed" THEN { "json" }
    ELSE IF j.kind # "object" THEN ApiErrors \cup { "attr" }
    ELSE ApiErrors

(***************************************************************************)
(* State.                                                                  *)
(***************************************************************************)
VARIABLES
    rows,     \* scheduled_posts: id -> row
    seq,      \* sqlite_sequence: the largest id ever assigned
    clock,    \* the wall clock (an instant)
    pc,       \* each dispatcher's position in process_due_posts
    now,      \* each tick's now
    due,      \* each tick's fetched batch
    idx,      \* each tick's position in its batch
    posts,    \* id -> the create_post invocations made for it, in order
    resp,     \* the HTTP response sent by the last step, if it sent one
    reply     \* what the last step got from post_to_linkedin_with_cookies, if it called it

vars == <<rows, seq, clock, pc, now, due, idx, posts, resp, reply>>

NoReply == [kind |-> "none", success |-> FALSE, error |-> None]

\* create_post returned r
Returned(r) == [kind |-> "ret", success |-> r.success, error |-> r.error]

\* an exception e was raised, with str(e) = msg
Raised(msg) == [kind |-> "exc", success |-> FALSE, error |-> Some(msg)]

\* the values of the status column, in the order of the lifecycle
StatusOrder == <<"pending", "processing", "done", "failed">>

Max(a, b) == IF a > b THEN a ELSE b

\* the ids the model hands out or finds stored: up to MaxJobs inserted, up
\* to MaxStore found, or one found for each status
MaxId == Max(Max(MaxJobs, MaxStore), Len(StatusOrder))

NoResp == [op |-> "none", code |-> 0, id |-> 0, run_at |-> <<>>]

Init ==
    /\ rows = <<>>
    /\ seq = 0
    /\ clock = 0
    /\ pc = [t \in Ticks |-> "idle"]
    /\ now = [t \in Ticks |-> <<>>]
    /\ due = [t \in Ticks |-> <<>>]
    /\ idx = [t \in Ticks |-> 0]
    /\ posts = [i \in 1..MaxId |-> <<>>]
    /\ resp = NoResp
    /\ reply = NoReply

(***************************************************************************)
(* The scheduled_posts table.                                              *)
(***************************************************************************)
Ids == DOMAIN rows

\* mutant: the text stored as submitted, without strip()
NewRowUntrimmed(run_at_iso, text, cookies) ==
    [run_at |-> run_at_iso, status |-> "pending", text |-> text,
     cookies_json |-> JsonDumps(cookies["li_at"], cookies["JSESSIONID"]), last_error |-> None]

\* mutant: json.dumps(cookies), the bundle as submitted
NewRowWholeBundle(run_at_iso, text, cookies) ==
    LET n == Cardinality(DOMAIN cookies)
        key == CHOOSE f \in [1..n -> DOMAIN cookies] : \A a, b \in 1..n : a # b => f[a] # f[b]
    IN  [run_at |-> run_at_iso, status |-> "pending", text |-> Strip(text),
         cookies_json |-> JsonObject([i \in 1..n |-> <<key[i], cookies[key[i]]>>]),
         last_error |-> None]

\* lines 437-440: VALUES(?, ?, 'pending', ?, ?, NULL) with run_at_iso,
\* str(text).strip() and the dump of the two tokens (created_at is written
\* here and read nowhere; the row of the model leaves it out)
NewRow(run_at_iso, text, cookies) ==
    [run_at |-> run_at_iso, status |-> "pending", text |-> Strip(text),
     cookies_json |-> JsonDumps(cookies["li_at"], cookies["JSESSIONID"]), last_error |-> None]

\* mutant: INTEGER PRIMARY KEY without AUTOINCREMENT, which hands out the
\* largest id in the table plus one
InsertMaxRowid(row) ==
    LET top == IF Ids = {} THEN 0 ELSE CHOOSE m \in Ids : \A i \in Ids : i <= m
    IN  [i \in Ids \cup {top + 1} |-> IF i = top + 1 THEN row ELSE rows[i]]

\* the table after the INSERT: AUTOINCREMENT hands out seq + 1
Insert(row) == [i \in Ids \cup {seq + 1} |-> IF i = seq + 1 THEN row ELSE rows[i]]

\* mutant: the due query without AND run_at <= ?
IsDueAnyTime(id, at) == rows[id].status = "pending"

\* mutant: a due query that also takes the rows left in processing
IsDueOrProcessing(id, at) ==
    rows[id].status \in {"pending", "processing"} /\ StrLeq(rows[id].run_at, at)

\* WHERE status = 'pending' AND run_at <= ?
IsDue(id, at) == rows[id].status = "pending" /\ StrLeq(rows[id].run_at, at)

DueIds(at) == {id \in Ids : IsDue(id, at)}

\* SELECT id, run_at, text, cookies_json
Snapshot(id) ==
    [id |-> id, run_at |-> rows[id].run_at, text |-> rows[id].text,
     cookies_json |-> rows[id].cookies_json]

Min(a, b) == IF a < b THEN a ELSE b

\* mutant: the due query without ORDER BY run_at ASC
BatchesUnordered(at, n) ==
    LET D == DueIds(at)
        k == Min(n, Cardinality(D))
    IN  { b \in [1..k -> D] : \A i, j \in 1..k : i < j => b[i] # b[j] }

\* mutant: the due query without LIMIT
BatchesUnlimited(at, n) ==
    LET D == DueIds(at)
        k == Cardinality(D)
    IN  { b \in [1..k -> D] :
            /\ \A i, j \in 1..k : i < j => b[i] # b[j]
            /\ \A i, j \in 1..k : i < j => StrLeq(rows[b[i]].run_at, rows[b[j]].run_at) }

\* mutant: the due query with ORDER BY run_at DESC
BatchesDescending(at, n) ==
    LET D == DueIds(at)
        k == Min(n, Cardinality(D))
    IN  { b \in [1..k -> D] :
            /\ \A i, j \in 1..k : i < j => b[i] # b[j]
            /\ \A i, j \in 1..k : i < j => StrLeq(rows[b[j]].run_at, rows[b[i]].run_at)
            /\ \A i \in 1..k : \A e \in D \ {b[j] : j \in 1..k} :
                   StrLeq(rows[e].run_at, rows[b[i]].run_at) }

\* ORDER BY run_at ASC LIMIT n: the orders of the first n due rows that the
\* query may return (rows with equal run_at come in an unspecified order)
Batches(at, n) ==
    LET D == DueIds(at)
        k == Min(n, Cardinality(D))
    IN  { b \in [1..k -> D] :
            /\ \A i, j \in 1..k : i < j => b[i] # b[j]
            /\ \A i, j \in 1..k : i < j => StrLeq(rows[b[i]].run_at, rows[b[j]].run_at)
            /\ \A i \in 1..k : \A e \in D \ {b[j] : j \in 1..k} :
                   StrLeq(rows[b[i]].run_at, rows[e].run_at) }

\* mutant: the rowcount of an UPDATE whose WHERE names the id only
ClaimRowcountAnyStatus(id) == IF id \in Ids THEN 1 ELSE 0

\* mutant: the claim decided on the fetched row, which was pending
ClaimRowcountFromSnapshot(id) == 1

\* rowcount of UPDATE ... SET status = 'processing' WHERE id = ? AND status = 'pending'
ClaimRowcount(id) == IF id \in Ids /\ rows[id].status = "pending" THEN 1 ELSE 0

\* mutant: an UPDATE without its WHERE clause
WhereAny(id) == Ids

\* the rows that WHERE id = ? selects
WhereId(id) == {i \in Ids : i = id}

\* mutant: SET last_error = COALESCE(last_error, '') || ?, the detail
\* appended to what the row holds
UpdateAppending(S, s, e) ==
    [i \in Ids |->
        IF i \in S
            THEN [rows[i] EXCEPT !.status = s,
                                 !.last_error = IF e.null \/ @.null THEN e ELSE Some(@.s \o e.s)]
            ELSE rows[i]]

\* the table after UPDATE ... SET status = s, last_error = e on the rows S
Update(S, s, e) ==
    [i \in Ids |-> IF i \in S THEN [rows[i] EXCEPT !.status = s, !.last_error = e] ELSE rows[i]]

\* mutant: the claim UPDATE without id = ?, taking every pending row
ClaimUpdateAllPending(id) ==
    [i \in Ids |-> IF rows[i].status = "pending" THEN [rows[i] EXCEPT !.status = "processing"] ELSE rows[i]]

\* mutant: the claim UPDATE without AND status = 'pending'
ClaimUpdateAnyStatus(id) ==
    [i \in Ids |-> IF i = id THEN [rows[i] EXCEPT !.status = "processing"] ELSE rows[i]]

\* the table after the claim UPDATE (last_error is not assigned)
ClaimUpdate(id) ==
    [i \in Ids |-> IF i = id /\ rows[i].status = "pending"
                     THEN [rows[i] EXCEPT !.status = "processing"] ELSE rows[i]]

\* mutant: str(result.get("error")) without the default
ErrorDetailNoDefault(res) == IF res.error.null THEN "None" ELSE res.error.s

\* str(result.get("error") or "Failed to create post")
ErrorDetail(res) ==
    IF res.error.null \/ res.error.s = "" THEN "Failed to create post" ELSE res.error.s

\* mutant: the outcome written with INSERT OR REPLACE, which puts back a
\* row that is no longer in the table
OutcomeUpsert(id, res) ==
    LET st == IF res.success THEN "done" ELSE "failed"
        er == IF res.success THEN None ELSE Some(ErrorDetail(res))
    IN  [i \in Ids \cup {id} |->
            IF i # id THEN rows[i]
            ELSE IF id \in Ids THEN [rows[i] EXCEPT !.status = st, !.last_error = er]
            ELSE [run_at |-> IsoFormat(0), status |-> st, text |-> <<>>,
                  cookies_json |-> JsonArray, last_error |-> er]]

\* the outcome UPDATE of lines 112-121: keyed on id only
OutcomeUpdate(id, res) ==
    IF res.success
        THEN Update(WhereId(id), "done", None)
        ELSE Update(WhereId(id), "failed", Some(ErrorDetail(res)))

\* mutant: an except branch that records the status without the message
ExceptionUpdateNoDetail(id, res) == Update(WhereId(id), "failed", None)

\* mutant: an except branch that writes nothing
ExceptionUpdateSkipped(id, res) == rows

\* the UPDATE of the except branch, lines 124-127
ExceptionUpdate(id, res) == Update(WhereId(id), "failed", res.error)

(***************************************************************************)
(* process_due_posts: one tick of a dispatcher.                            *)
(***************************************************************************)
\* the id of the batch row the loop is at
PostId(t) == due[t][idx[t]].id

\* mutant: the loop steps over the row that follows
NextRowSkips(t) ==
    IF idx[t] + 2 > Len(due[t])
        THEN /\ pc' = [pc EXCEPT ![t] = "idle"]
             /\ now' = [now EXCEPT ![t] = <<>>]
             /\ due' = [due EXCEPT ![t] = <<>>]
             /\ idx' = [idx EXCEPT ![t] = 0]
        ELSE /\ pc' = [pc EXCEPT ![t] = "claim"]
             /\ idx' = [idx EXCEPT ![t] = idx[t] + 2]
             /\ UNCHANGED <<now, due>>

\* line 98: the loop moves to the next batch row; once the batch is
\* exhausted the connection is closed (line 130) and the tick returns
NextRow(t) ==
    IF idx[t] + 1 > Len(due[t])
        THEN /\ pc' = [pc EXCEPT ![t] = "idle"]
             /\ now' = [now EXCEPT ![t] = <<>>]
             /\ due' = [due EXCEPT ![t] = <<>>]
             /\ idx' = [idx EXCEPT ![t] = 0]
        ELSE /\ pc' = [pc EXCEPT ![t] = "claim"]
             /\ idx' = [idx EXCEPT ![t] = idx[t] + 1]
             /\ UNCHANGED <<now, due>>

\* lines 136-138: the scheduler runs process_due_posts again, also after a
\* run that raised; line 84: now = datetime.now(timezone.utc).isoformat();
\* line 85: connect
TickStart(t) ==
    /\ pc[t] \in {"idle", "aborted"}
    /\ now' = [now EXCEPT ![t] = IsoFormat(clock)]
    /\ pc' = [pc EXCEPT ![t] = "fetch"]
    /\ resp' = NoResp
    /\ reply' = NoReply
    /\ UNCHANGED <<rows, seq, clock, due, idx, posts>>

\* lines 87-98: the due query; an empty batch ends the tick
Fetch(t) ==
    /\ pc[t] = "fetch"
    /\ \E b \in Batches(now[t], Limit) :
           IF b = <<>>
               THEN /\ pc' = [pc EXCEPT ![t] = "idle"]
                    /\ now' = [now EXCEPT ![t] = <<>>]
                    /\ UNCHANGED <<due, idx>>
               ELSE /\ due' = [due EXCEPT ![t] = [i \in DOMAIN b |-> Snapshot(b[i])]]
                    /\ idx' = [idx EXCEPT ![t] = 1]
                    /\ pc' = [pc EXCEPT ![t] = "claim"]
                    /\ now' = now
    /\ resp' = NoResp
    /\ reply' = NoReply
    /\ UNCHANGED <<rows, seq, clock, posts>>

\* lines 99-106: the claim UPDATE of the batch row, committed; a rowcount
\* other than 1 moves on to the following row
Claim(t) ==
    /\ pc[t] = "claim"
    /\ rows' = ClaimUpdate(PostId(t))
    /\ IF ClaimRowcount(PostId(t)) # 1
         THEN NextRow(t)
         ELSE /\ pc' = [pc EXCEPT ![t] = "exec"]
              /\ UNCHANGED <<now, due, idx>>
    /\ resp' = NoResp
    /\ reply' = NoReply
    /\ UNCHANGED <<seq, clock, posts>>

\* lines 109-111 and 74-76: the batch row's bundle is deserialized, the API
\* client built with it and create_post invoked with the batch row's text
Invoke(t) ==
    /\ pc[t] = "exec"
    /\ due[t][idx[t]].cookies_json.kind = "object"
    /\ LET row == due[t][idx[t]]
           cookies == JsonLoads(row.cookies_json)
       IN  posts' = [posts EXCEPT ![row.id] = Append(@, [text |-> row.text, cookies |-> cookies])]
    /\ pc' = [pc EXCEPT ![t] = "inflight"]
    /\ resp' = NoResp
    /\ reply' = NoReply
    /\ UNCHANGED <<rows, seq, clock, now, due, idx>>

\* mutant: lines 109-111 outside the try block, the exception leaves the tick
InvokeRaisesUncaught(t) ==
    /\ pc[t] = "exec"
    /\ \E msg \in InvokeErrors(due[t][idx[t]].cookies_json) : reply' = Raised(msg)
    /\ pc' = [pc EXCEPT ![t] = "idle"]
    /\ now' = [now EXCEPT ![t] = <<>>]
    /\ due' = [due EXCEPT ![t] = <<>>]
    /\ idx' = [idx EXCEPT ![t] = 0]
    /\ resp' = NoResp
    /\ UNCHANGED <<rows, seq, clock, posts>>

\* lines 109-111, 123-128: deserializing the bundle or building the API
\* client raises before create_post is reached; the except branch's UPDATE
\* is committed
InvokeRaises(t) ==
    /\ pc[t] = "exec"
    /\ \E msg \in InvokeErrors(due[t][idx[t]].cookies_json) :
           /\ reply' = Raised(msg)
           /\ rows' = ExceptionUpdate(PostId(t), Raised(msg))
    /\ NextRow(t)
    /\ resp' = NoResp
    /\ UNCHANGED <<seq, clock, posts>>

\* lines 111-122: create_post returns and the outcome UPDATE is committed
Return(t) ==
    /\ pc[t] = "inflight"
    /\ \E r \in RemoteResults :
           /\ reply' = Returned(r)
           /\ rows' = OutcomeUpdate(PostId(t), Returned(r))
    /\ NextRow(t)
    /\ resp' = NoResp
    /\ UNCHANGED <<seq, clock, posts>>

\* the dispatcher process is killed and started again: its tick stops
\* where it is, and nothing it has committed is undone
Crash(t) ==
    /\ pc[t] # "idle"
    /\ pc' = [pc EXCEPT ![t] = "idle"]
    /\ now' = [now EXCEPT ![t] = <<>>]
    /\ due' = [due EXCEPT ![t] = <<>>]
    /\ idx' = [idx EXCEPT ![t] = 0]
    /\ resp' = NoResp
    /\ reply' = NoReply
    /\ UNCHANGED <<rows, seq, clock, posts>>

(***************************************************************************)
(* Storage errors: a statement or a commit of the tick's connection        *)
(* raises (the database is locked, the disk is full, the file is gone).    *)
(***************************************************************************)
\* str(e) of the exception that sqlite3 raises
StorageErrors == { "locked" }

\* mutant: a scheduler that does not outlive an exception of its job
AbortStopsScheduler(t) ==
    /\ pc' = [pc EXCEPT ![t] = "dead"]
    /\ now' = [now EXCEPT ![t] = <<>>]
    /\ due' = [due EXCEPT ![t] = <<>>]
    /\ idx' = [idx EXCEPT ![t] = 0]

\* lines 129-130 and 136-138: the exception leaves process_due_posts
\* through finally, which closes the connection and with it rolls back
\* what was not committed; the scheduler logs the exception and keeps the
\* job scheduled
Abort(t) ==
    /\ pc' = [pc EXCEPT ![t] = "aborted"]
    /\ now' = [now EXCEPT ![t] = <<>>]
    /\ due' = [due EXCEPT ![t] = <<>>]
    /\ idx' = [idx EXCEPT ![t] = 0]

\* lines 85-96: connecting or the due query raises
FetchRaises(t) ==
    /\ pc[t] = "fetch"
    /\ Abort(t)
    /\ resp' = NoResp
    /\ reply' = NoReply
    /\ UNCHANGED <<rows, seq, clock, posts>>

\* lines 100-104: the claim UPDATE or its commit raises, outside the inner
\* try block
ClaimRaises(t) ==
    /\ pc[t] = "claim"
    /\ Abort(t)
    /\ resp' = NoResp
    /\ reply' = NoReply
    /\ UNCHANGED <<rows, seq, clock, posts>>

\* lines 111-128: create_post returns, the outcome UPDATE or its commit
\* raises, and the except branch's UPDATE of the same transaction is
\* committed: the row is failed with the storage error's text
ReturnWriteRaises(t) ==
    /\ pc[t] = "inflight"
    /\ \E r \in RemoteResults : reply' = Returned(r)
    /\ \E e \in StorageErrors : rows' = ExceptionUpdate(PostId(t), Raised(e))
    /\ NextRow(t)
    /\ resp' = NoResp
    /\ UNCHANGED <<seq, clock, posts>>

\* lines 111-130: create_post returns, the outcome write raises and the
\* except branch's write raises too
ReturnWritesRaise(t) ==
    /\ pc[t] = "inflight"
    /\ \E r \in RemoteResults : reply' = Returned(r)
    /\ Abort(t)
    /\ resp' = NoResp
    /\ UNCHANGED <<rows, seq, clock, posts>>

\* lines 109-111, 123-130: an exception before create_post is reached, and
\* the except branch's write raises
InvokeRaisesWriteRaises(t) ==
    /\ pc[t] = "exec"
    /\ \E msg \in InvokeErrors(due[t][idx[t]].cookies_json) : reply' = Raised(msg)
    /\ Abort(t)
    /\ resp' = NoResp
    /\ UNCHANGED <<rows, seq, clock, posts>>

(***************************************************************************)
(* The request handlers.                                                   *)
(***************************************************************************)
\* line 418: cookies = data.get("cookies") or {}
CookiesOrEmpty(c) == IF Truthy(c) THEN c ELSE Dict(<<>>)

\* line 422: the bundle check of schedule_post
BadCookies(c) ==
    \/ CookiesOrEmpty(c).type # "dict"
    \/ ~Truthy(DictGet(CookiesOrEmpty(c).v, "li_at"))
    \/ ~Truthy(DictGet(CookiesOrEmpty(c).v, "JSESSIONID"))

\* mutant: the text check without strip()
BadTextNoStrip(text) == ~Truthy(text)

\* line 424: not text or not str(text).strip()
BadText(text) == ~Truthy(text) \/ Strip(text.v) = <<>>

\* lines 417-429: what schedule_post answers 400 to
Rejected(c, text, r) == BadCookies(c) \/ BadText(text) \/ ~parse_iso_datetime(r).ok

\* lines 411-452
schedule_post(c, text, r) ==
    /\ IF Rejected(c, text, r)
         THEN /\ resp' = [op |-> "schedule", code |-> 400, id |-> 0, run_at |-> <<>>]
              /\ UNCHANGED <<rows, seq>>
         ELSE LET run_at_iso == IsoFormat(parse_iso_datetime(r).t)
                  cookies == CookiesOrEmpty(c).v
              IN  /\ seq < MaxJobs
                  /\ rows' = Insert(NewRow(run_at_iso, text.v, cookies))
                  /\ seq' = seq + 1
                  /\ resp' = [op |-> "schedule", code |-> 200, id |-> seq + 1, run_at |-> run_at_iso]
    /\ reply' = NoReply
    /\ UNCHANGED <<clock, pc, now, due, idx, posts>>

\* mutant: DELETE restricted to the rows that have an outcome
clear_scheduled_finished ==
    /\ rows' = [i \in {j \in Ids : rows[j].status \in {"done", "failed"}} |-> rows[i]]
    /\ resp' = [op |-> "clear", code |-> 200, id |-> 0, run_at |-> <<>>]
    /\ reply' = NoReply
    /\ UNCHANGED <<seq, clock, pc, now, due, idx, posts>>

\* lines 455-466: DELETE FROM scheduled_posts
clear_scheduled ==
    /\ rows' = <<>>
    /\ resp' = [op |-> "clear", code |-> 200, id |-> 0, run_at |-> <<>>]
    /\ reply' = NoReply
    /\ UNCHANGED <<seq, clock, pc, now, due, idx, posts>>

\* the /post-to-linkedin bodies submitted: "cookies" and "text"
PostRequests ==
    {<<c, x>> : c \in {Null, Str(<<"x">>), GoodCookies}, x \in {Null, Str(<<>>), Str(<<"a">>)}}

\* str(e) of the exceptions lines 334-335 can raise before create_post is
\* reached
PostErrors(c) == IF c.type # "dict" THEN ApiErrors \cup { "attr" } ELSE ApiErrors

\* the answer of post_to_linkedin, with what it got from the remote side
PostAnswer(code, got) ==
    /\ resp' = [op |-> "post", code |-> code, id |-> 0, run_at |-> <<>>]
    /\ reply' = got

\* mutant: a successful immediate post is also written to the table
post_to_linkedin_logged(c, text) ==
    /\ Truthy(c) /\ Truthy(text) /\ c.type = "dict"
    /\ PostAnswer(200, Returned([success |-> TRUE, error |-> None]))
    /\ rows' = Insert([run_at |-> IsoFormat(clock), status |-> "done", text |-> text.v,
                       cookies_json |-> JsonDumps(c.v["li_at"], c.v["JSESSIONID"]),
                       last_error |-> None])
    /\ seq' = seq + 1
    /\ UNCHANGED <<clock, pc, now, due, idx, posts>>

\* lines 318-354: a missing body, bundle or text is answered 400; otherwise
\* the API client is built and create_post called: 200 on success, 500 on
\* a reported failure or an exception
post_to_linkedin(c, text) ==
    /\ IF ~Truthy(c) \/ ~Truthy(text)
         THEN PostAnswer(400, NoReply)
         ELSE \/ \E msg \in PostErrors(c) : PostAnswer(500, Raised(msg))
              \/ /\ c.type = "dict"
                 /\ \E r \in RemoteResults :
                        PostAnswer(IF r.success THEN 200 ELSE 500, Returned(r))
    /\ UNCHANGED <<rows, seq, clock, pc, now, due, idx, posts>>

\* time passes
Advance ==
    /\ clock < MaxClock
    /\ clock' = clock + 1
    /\ resp' = NoResp
    /\ reply' = NoReply
    /\ UNCHANGED <<rows, seq, pc, now, due, idx, posts>>

Next ==
    \/ \E t \in Ticks : TickStart(t)
    \/ \E t \in Ticks : Fetch(t)
    \/ \E t \in Ticks : Claim(t)
    \/ \E t \in Ticks : Invoke(t)
    \/ \E t \in Ticks : InvokeRaises(t)
    \/ \E t \in Ticks : Return(t)
    \/ \E q \in Requests : schedule_post(q[1], q[2], q[3])
    \/ clear_scheduled
    \/ Advance

Spec == Init /\ [][Next]_vars

\* the same, with dispatcher processes that may be killed at any point
NextCrash == Next \/ \E t \in Ticks : Crash(t)

SpecCrash == Init /\ [][NextCrash]_vars

(***************************************************************************)
(* Dispatchers that keep running: the scheduler fires process_due_posts    *)
(* every 30 seconds, each statement of a tick that has started is reached, *)
(* and every remote call returns; nothing is deleted, nothing crashes.     *)
(***************************************************************************)
NextLive ==
    \/ \E t \in Ticks : TickStart(t)
    \/ \E t \in Ticks : Fetch(t)
    \/ \E t \in Ticks : Claim(t)
    \/ \E t \in Ticks : Invoke(t)
    \/ \E t \in Ticks : InvokeRaises(t)
    \/ \E t \in Ticks : Return(t)
    \/ \E q \in Requests : schedule_post(q[1], q[2], q[3])
    \/ Advance

Fairness ==
    \A t \in Ticks :
        /\ WF_vars(TickStart(t))
        /\ WF_vars(Fetch(t))
        /\ WF_vars(Claim(t))
        /\ WF_vars(Invoke(t) \/ InvokeRaises(t))
        /\ WF_vars(Return(t))

SpecLive == Init /\ [][NextLive]_vars /\ Fairness

(***************************************************************************)
(* A dispatcher started on a database file that already holds rows: the    *)
(* table is created only IF NOT EXISTS, so the rows of earlier runs stay.  *)
(***************************************************************************)
\* the rows schedule_post and earlier ticks can have left in the file
StoredRows ==
    { [run_at |-> IsoFormat(parse_iso_datetime(r).t), status |-> st[1], text |-> <<"a">>,
       cookies_json |-> JsonDumps(GoodCookies.v["li_at"], GoodCookies.v["JSESSIONID"]),
       last_error |-> st[2]] :
        r \in {x \in RunAtInputs : parse_iso_datetime(x).ok},
        st \in {<<"pending", None>>, <<"processing", None>>, <<"done", None>>,
                <<"failed", Some("403")>>} }

InitStore ==
    /\ rows \in [1..MaxStore -> StoredRows]
    /\ seq = MaxStore
    /\ clock = 0
    /\ pc = [t \in Ticks |-> "idle"]
    /\ now = [t \in Ticks |-> <<>>]
    /\ due = [t \in Ticks |-> <<>>]
    /\ idx = [t \in Ticks |-> 0]
    /\ posts = [i \in 1..MaxId |->
                   IF i \in 1..MaxStore /\ rows[i].status \in {"done", "failed"}
                       THEN <<[text |-> rows[i].text, cookies |-> JsonLoads(rows[i].cookies_json)]>>
                       ELSE <<>>]
    /\ resp = NoResp
    /\ reply = NoReply

\* the ticks of one dispatcher on that store
NextStore ==
    \/ TickStart("t1")
    \/ Fetch("t1")
    \/ Claim("t1")
    \/ Invoke("t1")
    \/ InvokeRaises("t1")
    \/ Return("t1")
    \/ Advance

SpecStore == InitStore /\ [][NextStore]_vars

(***************************************************************************)
(* The submission handler on its own, with a wider range of bundles and    *)
(* timestamps.                                                             *)
(***************************************************************************)
\* "cookies": also tokens of other values next to further session cookies,
\* and a token that is itself an object
CredentialInputs ==
    CookieInputs \cup
        { Dict([li_at |-> Str(<<"x">>), JSESSIONID |-> Str(<<"a">>),
                bcookie |-> Str(<<"Z">>), li_rm |-> Str(<<"5">>)]),
          Dict([li_at |-> Dict([a |-> Str(<<"x">>)]), JSESSIONID |-> Str(<<"x">>)]) }

\* "run_at": also naive texts, fractions with a Z, offsets either side of
\* UTC, blanks on both sides, and a text past the latest datetime
TimestampInputs ==
    RunAtInputs \cup
        { Str(<<"1">>),
          Str(<<"1", ".", "5", "Z">>),
          Str(<<"3", "+", "1">>),
          Str(<<"1", "-", "1">>),
          Str(<<" ", "2", ".", "0", "Z", " ">>),
          Str(<<"9", ".", "5", "-", "1">>) }

SubmitRequests ==
    {<<c, Str(<<"a">>), Str(<<"0", "Z">>)>> : c \in CredentialInputs}
        \cup {<<GoodCookies, Str(<<" ", "a", " ">>), r>> : r \in TimestampInputs}

NextSubmit ==
    \/ \E q \in SubmitRequests : schedule_post(q[1], q[2], q[3])
    \/ clear_scheduled

SpecSubmit == Init /\ [][NextSubmit]_vars

(***************************************************************************)
(* One dispatcher next to the submission and clear handlers, with jobs     *)
(* that differ in text and in credentials.                                 *)
(***************************************************************************)
OtherCookies ==
    Dict([li_at |-> Str(<<"x">>), JSESSIONID |-> Str(<<"a">>), bcookie |-> Str(<<"Z">>)])

IdRequests ==
    {<<c, x, Str(<<"0", "Z">>)>> : c \in {GoodCookies, OtherCookies},
                                   x \in {Str(<<"a">>), Str(<<"x">>)}}
        \cup {<<Null, Str(<<"a">>), Str(<<"0", "Z">>)>>}

NextIds ==
    \/ TickStart("t1")
    \/ Fetch("t1")
    \/ Claim("t1")
    \/ Invoke("t1")
    \/ InvokeRaises("t1")
    \/ Return("t1")
    \/ \E q \in IdRequests : schedule_post(q[1], q[2], q[3])
    \/ clear_scheduled

SpecIds == Init /\ [][NextIds]_vars

(***************************************************************************)
(* One dispatcher and the request handlers that do not insert, on a        *)
(* database file that holds a row of every status: row i has status        *)
(* StatusOrder[i].                                                         *)
(***************************************************************************)
MixedRow(st, t) ==
    [run_at |-> IsoFormat(t), status |-> st, text |-> <<"a">>,
     cookies_json |-> JsonDumps(GoodCookies.v["li_at"], GoodCookies.v["JSESSIONID"]),
     last_error |-> IF st = "failed" THEN Some("403") ELSE None]

InitMixed ==
    /\ \E at \in [1..Len(StatusOrder) -> {0, 1}] :
           rows = [i \in 1..Len(StatusOrder) |-> MixedRow(StatusOrder[i], at[i])]
    /\ seq = Len(StatusOrder)
    /\ clock = 0
    /\ pc = [t \in Ticks |-> "idle"]
    /\ now = [t \in Ticks |-> <<>>]
    /\ due = [t \in Ticks |-> <<>>]
    /\ idx = [t \in Ticks |-> 0]
    /\ posts = [i \in 1..MaxId |->
                   IF i \in DOMAIN rows /\ rows[i].status \in {"done", "failed"}
                       THEN <<[text |-> rows[i].text, cookies |-> JsonLoads(rows[i].cookies_json)]>>
                       ELSE <<>>]
    /\ resp = NoResp
    /\ reply = NoReply

NextMixed ==
    \/ TickStart("t1")
    \/ Fetch("t1")
    \/ Claim("t1")
    \/ Invoke("t1")
    \/ InvokeRaises("t1")
    \/ Return("t1")
    \/ clear_scheduled
    \/ \E q \in PostRequests : post_to_linkedin(q[1], q[2])
    \/ Advance

SpecMixed == InitMixed /\ [][NextMixed]_vars

(***************************************************************************)
(* One dispatcher on a database file of pending rows, some of which hold   *)
(* a cookies_json that schedule_post did not write.                        *)
(***************************************************************************)
BatchRows ==
    { [run_at |-> IsoFormat(tj[1]), status |-> "pending", text |-> <<"a">>,
       cookies_json |-> tj[2], last_error |-> None] :
        tj \in { <<0, JsonDumps(GoodCookies.v["li_at"], GoodCookies.v["JSESSIONID"])>>,
                 <<1, JsonDumps(GoodCookies.v["li_at"], GoodCookies.v["JSESSIONID"])>>,
                 <<0, JsonArray>>,
                 <<0, JsonMalformed>> } }

InitBatch ==
    /\ rows \in [1..MaxStore -> BatchRows]
    /\ seq = MaxStore
    /\ clock = 0
    /\ pc = [t \in Ticks |-> "idle"]
    /\ now = [t \in Ticks |-> <<>>]
    /\ due = [t \in Ticks |-> <<>>]
    /\ idx = [t \in Ticks |-> 0]
    /\ posts = [i \in 1..MaxId |-> <<>>]
    /\ resp = NoResp
    /\ reply = NoReply

SpecBatch == InitBatch /\ [][NextStore]_vars

\* the same dispatcher with a store that may raise, and clear_scheduled
NextFault ==
    \/ NextStore
    \/ FetchRaises("t1")
    \/ ClaimRaises("t1")
    \/ ReturnWriteRaises("t1")
    \/ ReturnWritesRaise("t1")
    \/ InvokeRaisesWriteRaises("t1")
    \/ clear_scheduled

SpecFault == InitBatch /\ [][NextFault]_vars

\* the same, with a dispatcher process that may also be killed
NextFaultCrash == NextFault \/ Crash("t1")

SpecFaultCrash == InitBatch /\ [][NextFaultCrash]_vars

(***************************************************************************)
(* Properties.                                                             *)
(***************************************************************************)
\* the number of create_post invocations made for id i
Calls(i) == Len(posts[i])

\* the tick has claimed the batch row it is at and not yet recorded its outcome
Holds(t, i) == pc[t] \in {"exec", "inflight"} /\ PostId(t) = i

\* the tick's batch has row i at position k
BatchHas(t, k, i) == k \in 1..Len(due[t]) /\ due[t][k].id = i

\* the tick has made its claim attempt for row i of its batch
Attempted(t, i) ==
    \E k \in 1..Len(due[t]) : BatchHas(t, k, i) /\ (k < idx[t] \/ (k = idx[t] /\ pc[t] # "claim"))

\* C1: create_post is invoked at most once per job id, and only by the one
\* tick that owns the row through a successful claim: a tick between claim
\* and outcome is the only such tick for its id, the call counted for the
\* id is the one this tick made, and the row (if not deleted) is processing.
C1_AtMostOnce ==
    /\ \A i \in DOMAIN posts : Calls(i) <= 1
    /\ \A t \in Ticks : \A i \in DOMAIN posts :
           Holds(t, i) =>
               /\ Calls(i) = (IF pc[t] = "inflight" THEN 1 ELSE 0)
               /\ i \in Ids => rows[i].status = "processing"
               /\ \A u \in Ticks \ {t} : ~Holds(u, i)

\* two ticks raced on one id: one made the call, the other's attempt lost
C1_Witness ==
    \E t, u \in Ticks : \E i \in DOMAIN posts :
        /\ t # u
        /\ pc[t] = "inflight" /\ PostId(t) = i
        /\ Attempted(u, i)
        /\ Calls(i) = 1

\* C2 as claimed: every job that was taken out of pending and is in no
\* tick's hands has had create_post invoked exactly once, even with crashes.
C2_ExactlyOnceUnderCrashes ==
    \A i \in Ids :
        (rows[i].status \in {"processing", "done"} /\ \A t \in Ticks : ~Holds(t, i))
            => Calls(i) = 1

\* C2 amended: with crashes no job is executed more than once, a job
\* recorded done was executed exactly once, and a job without a recorded
\* outcome that no tick holds was executed at most once and stays as it is.
C2_AtMostOnceUnderCrashes ==
    /\ \A i \in DOMAIN posts : Calls(i) <= 1
    /\ \A i \in Ids : rows[i].status = "done" => Calls(i) = 1
    /\ \A t \in Ticks : \A i \in DOMAIN posts :
           Holds(t, i) => Calls(i) = (IF pc[t] = "inflight" THEN 1 ELSE 0)

\* a tick was killed between claim and remote call, and a later tick whose
\* now is past the job's run_at has started: the job is still unexecuted
C2_Witness ==
    \E i \in Ids : \E t \in Ticks :
        /\ rows[i].status = "processing"
        /\ Calls(i) = 0
        /\ \A u \in Ticks : ~Holds(u, i)
        /\ pc[t] = "claim"
        /\ StrLeq(rows[i].run_at, now[t])

\* the step is tick t's claim attempt
ClaimStep(t) == pc[t] = "claim" /\ (pc'[t] # "claim" \/ idx'[t] # idx[t])

\* C3: a claim attempt succeeds exactly when the row exists and is pending;
\* it then makes the row processing and nothing else, and the tick goes on
\* to execute it. Any other attempt leaves the store unchanged and the tick
\* skips the row (no call is made for it). So of racing attempts on one
\* pending row the first succeeds and all later ones fail.
C3_ClaimIsCas ==
    [][\A t \in Ticks : ClaimStep(t) =>
          LET i == PostId(t)
          IN  IF i \in Ids /\ rows[i].status = "pending"
                THEN /\ rows' = [rows EXCEPT ![i].status = "processing"]
                     /\ pc'[t] = "exec" /\ idx'[t] = idx[t]
                ELSE /\ rows' = rows
                     /\ posts' = posts
                     /\ \/ pc'[t] = "claim" /\ idx'[t] = idx[t] + 1
                        \/ pc'[t] = "idle"]_vars

\* a tick is about to attempt a row that another tick has already claimed
C3_Witness ==
    \E t, u \in Ticks :
        /\ t # u
        /\ pc[t] = "exec"
        /\ pc[u] = "claim"
        /\ PostId(u) = PostId(t)

\* C4: a row that is done or failed is never changed again and no call is
\* made for its id again; it can only disappear, and only through
\* clear_scheduled.
C4_TerminalAbsorbing ==
    [][\A i \in Ids : rows[i].status \in {"done", "failed"} =>
          /\ posts'[i] = posts[i]
          /\ \/ i \in DOMAIN rows' /\ rows'[i] = rows[i]
             \/ rows' = <<>> /\ resp'.op = "clear"]_vars

\* a tick whose batch still lists a row that has meanwhile become done or
\* failed is about to attempt it
C4_Witness ==
    \E t \in Ticks :
        /\ pc[t] = "claim"
        /\ PostId(t) \in Ids
        /\ rows[PostId(t)].status \in {"done", "failed"}

Statuses == {"pending", "processing", "done", "failed"}

\* C5: every stored status is one of the four; a status only changes
\* pending -> processing, processing -> done or processing -> failed; and a
\* tick that is about to write an outcome for a row still stored finds it
\* processing.
C5_Lifecycle ==
    /\ [](\A i \in Ids : rows[i].status \in Statuses)
    /\ [](\A t \in Ticks : \A i \in Ids : Holds(t, i) => rows[i].status = "processing")
    /\ [][\A i \in Ids \cap DOMAIN rows' :
             rows'[i].status # rows[i].status =>
                 <<rows[i].status, rows'[i].status>> \in
                     {<<"pending", "processing">>, <<"processing", "done">>,
                      <<"processing", "failed">>}]_vars

\* one row has reached a terminal status while another is being processed
C5_Witness ==
    \E i, j \in Ids : rows[i].status \in {"done", "failed"} /\ rows[j].status = "processing"

\* the instant each ISO text written by isoformat() denotes
Instants == [iso \in {IsoFormat(x) : x \in 0..MaxInstant} |-> CHOOSE x \in 0..MaxInstant : IsoFormat(x) = iso]

InstantOf(iso) == Instants[iso]

\* the rows that are pending with run_at no later than the tick's now
DueAt(t) == {i \in Ids : rows[i].status = "pending" /\ InstantOf(rows[i].run_at) <= InstantOf(now[t])}

\* the step is tick t's due query
FetchStep(t) == pc[t] = "fetch" /\ pc'[t] # "fetch"

\* C6: the batch a tick fetches holds distinct rows that are pending with
\* run_at <= now (as instants), in ascending run_at order, as many as are due
\* up to the batch limit, and no due row left out has an earlier run_at
\* than a row taken; each entry carries the row's stored fields.
C6_DueSet ==
    [][\A t \in Ticks : FetchStep(t) =>
          LET b == IF pc'[t] = "idle" THEN <<>> ELSE due'[t]
              taken == {b[k].id : k \in 1..Len(b)}
          IN  /\ taken \subseteq DueAt(t)
              /\ Cardinality(taken) = Len(b)
              /\ Len(b) = Min(Limit, Cardinality(DueAt(t)))
              /\ \A j, k \in 1..Len(b) :
                     j < k => InstantOf(b[j].run_at) <= InstantOf(b[k].run_at)
              /\ \A i \in taken : \A e \in DueAt(t) \ taken :
                     InstantOf(rows[i].run_at) <= InstantOf(rows[e].run_at)
              /\ \A k \in 1..Len(b) :
                     /\ b[k].run_at = rows[b[k].id].run_at
                     /\ b[k].text = rows[b[k].id].text
                     /\ b[k].cookies_json = rows[b[k].id].cookies_json]_vars

\* a tick has just fetched a full batch, in strictly ascending order, from a
\* store that holds a further due row, which the batch limit left out
C6_Witness ==
    \E t \in Ticks :
        /\ pc[t] = "claim" /\ idx[t] = 1
        /\ Len(due[t]) = Limit
        /\ InstantOf(due[t][1].run_at) < InstantOf(due[t][Limit].run_at)
        /\ \A k \in 1..Limit : rows[due[t][k].id].status = "pending"
        /\ \E e \in DueAt(t) : \A k \in 1..Limit : due[t][k].id # e

\* the step ends tick t's handling of the row it had claimed
OutcomeStep(t) == pc[t] \in {"exec", "inflight"} /\ pc'[t] \notin {"exec", "inflight"}

\* C7: when a tick is through with a claimed row still stored, the row is
\* done with last_error NULL if create_post returned success; failed with
\* the returned error text, or with 'Failed to create post' when that text
\* is absent or empty, if it returned failure; failed with the exception's
\* message if an exception was raised. Nothing else of the store changes.
C7_OutcomeRecorded ==
    [][\A t \in Ticks : OutcomeStep(t) =>
          LET i == PostId(t)
              expected ==
                  IF reply'.kind = "ret" /\ reply'.success
                      THEN [rows[i] EXCEPT !.status = "done", !.last_error = None]
                  ELSE IF reply'.kind = "ret" /\ (reply'.error.null \/ reply'.error.s = "")
                      THEN [rows[i] EXCEPT !.status = "failed",
                                           !.last_error = Some("Failed to create post")]
                  ELSE [rows[i] EXCEPT !.status = "failed", !.last_error = reply'.error]
          IN  /\ reply'.kind \in {"ret", "exc"}
              /\ pc[t] = "exec" => reply'.kind = "exc"
              /\ DOMAIN rows' = Ids
              /\ \A j \in Ids : rows'[j] = (IF j = i THEN expected ELSE rows[j])]_vars

\* create_post returned failure with an empty error text and the row was
\* recorded failed with the default detail
C7_Witness ==
    /\ reply.kind = "ret" /\ ~reply.success /\ reply.error = Some("")
    /\ \E i \in Ids : rows[i].status = "failed" /\ rows[i].last_error = Some("Failed to create post")
    /\ \E j \in Ids : rows[j].status = "done" /\ rows[j].last_error = None

\* the step changes row i or makes a call for id i
Touched(i) ==
    \/ posts'[i] # posts[i]
    \/ i \in Ids /\ i \in DOMAIN rows' /\ rows'[i] # rows[i]

\* C8: every change of a stored job and every create_post call for a job is
\* made by a tick whose batch row it is and whose now is no earlier than
\* the job's run_at (as instants); so a job whose run_at is later than the
\* now of every running tick stays as it is.
C8_NotBeforeRunAt ==
    [][\A i \in DOMAIN posts : Touched(i) =>
          \E t \in Ticks :
              /\ pc[t] \in {"claim", "exec", "inflight"}
              /\ PostId(t) = i
              /\ InstantOf(due[t][idx[t]].run_at) <= InstantOf(now[t])
              /\ i \in Ids => rows[i].run_at = due[t][idx[t]].run_at]_vars

\* a tick has posted one job while another job, not yet due at the tick's
\* now, is pending
C8_Witness ==
    \E t \in Ticks : \E i \in Ids :
        /\ pc[t] = "inflight"
        /\ PostId(t) # i
        /\ rows[i].status = "pending"
        /\ InstantOf(rows[i].run_at) > InstantOf(now[t])

\* the request fails validation: the bundle is no object or lacks a
\* non-empty li_at or JSESSIONID, the text is missing or blank, or run_at
\* is missing or does not parse
InvalidRequest(c, text, r) ==
    \/ c.type # "dict"
    \/ \E k \in {"li_at", "JSESSIONID"} : k \notin DOMAIN c.v \/ c.v[k] \in {Null, Str(<<>>)}
    \/ text.type # "str"
    \/ \A k \in 1..Len(text.v) : text.v[k] = " "
    \/ r.type # "str"
    \/ ~parse_iso_datetime(r).ok

InvalidRequests == {q \in Requests : InvalidRequest(q[1], q[2], q[3])}

ValidRequests == Requests \ InvalidRequests

\* C9: an invalid schedule_post request is answered 400 and leaves the
\* table and the id sequence as they were.
C9_RejectNoEffect ==
    [][resp'.op = "schedule" =>
          \/ resp'.code = 400 /\ rows' = rows /\ seq' = seq
          \/ \A q \in InvalidRequests : ~schedule_post(q[1], q[2], q[3])]_vars

\* a request was just rejected while the store holds a row
C9_Witness == resp.op = "schedule" /\ resp.code = 400 /\ Ids # {}

\* what a valid request is to store: its text trimmed, its run_at normalized
Expected == [q \in ValidRequests |->
                [text |-> Strip(q[2].v), run_at |-> IsoFormat(parse_iso_datetime(q[3]).t)]]

\* the step adds exactly one row, pending, with last_error NULL and the
\* text and run_at given, under a fresh id that the response carries with
\* the same run_at, and changes no other row
AddsOneRow(text, run_at) ==
    \E id \in DOMAIN rows' :
        /\ id > seq /\ id \notin Ids
        /\ DOMAIN rows' = Ids \cup {id}
        /\ \A j \in Ids : rows'[j] = rows[j]
        /\ rows'[id].status = "pending"
        /\ rows'[id].last_error = None
        /\ rows'[id].text = text
        /\ rows'[id].run_at = run_at
        /\ resp'.code = 200
        /\ resp'.id = id
        /\ resp'.run_at = run_at

\* no valid request is among those that schedule_post answers 400 to
ValidAccepted == \A q \in ValidRequests : ~Rejected(q[1], q[2], q[3])

\* C10: a valid schedule_post request adds exactly one row, under an id
\* larger than any assigned before, pending, with last_error NULL, the
\* trimmed text and the normalized run_at; the response carries that id
\* and that run_at; every other row is unchanged.
C10_SubmitAddsOneRow ==
    [][resp'.op = "schedule" =>
          /\ ValidAccepted
          /\ resp'.code = 200 =>
                 \A q \in ValidRequests :
                     schedule_post(q[1], q[2], q[3]) =>
                         AddsOneRow(Expected[q].text, Expected[q].run_at)]_vars

\* a submission with untrimmed text was just accepted into a store that
\* already held a row in another status
C10_Witness ==
    /\ resp.op = "schedule" /\ resp.code = 200
    /\ resp.id \in Ids /\ rows[resp.id].text = <<"a">>
    /\ \E j \in Ids : j # resp.id /\ rows[j].status # "pending"

\* the bundle that the row holds, read back
StoredBundle(row) == JsonLoads(row.cookies_json)

\* C11: every stored bundle is an object of exactly the two members li_at
\* and JSESSIONID, both non-empty; and the bundle stored for an accepted
\* submission carries the submitted values of these two and nothing else of
\* the submitted bundle.
C11_MinimalCredentials ==
    /\ [](\A i \in Ids :
            /\ rows[i].cookies_json.kind = "object"
            /\ Len(rows[i].cookies_json.members) = 2
            /\ DOMAIN StoredBundle(rows[i]) = {"li_at", "JSESSIONID"}
            /\ \A k \in {"li_at", "JSESSIONID"} :
                   StoredBundle(rows[i])[k] \notin {Null, Str(<<>>), Dict(<<>>)})
    /\ [][resp'.op = "schedule" /\ resp'.code = 200 =>
             \A q \in SubmitRequests :
                 schedule_post(q[1], q[2], q[3]) =>
                     StoredBundle(rows'[resp'.id]) =
                         [k \in {"li_at", "JSESSIONID"} |-> q[1].v[k]]]_vars

\* a bundle submitted with further session cookies is stored, as its two
\* tokens, next to the bundle of another submission
C11_Witness ==
    /\ resp.op = "schedule" /\ resp.code = 200 /\ resp.id \in Ids
    /\ StoredBundle(rows[resp.id]) = [li_at |-> Str(<<"x">>), JSESSIONID |-> Str(<<"a">>)]
    /\ \E j \in Ids : StoredBundle(rows[j])["li_at"] = Str(<<"a">>)

\* the parseable run_at texts submitted, each with the UTC text of the same
\* instant: "Z" is UTC, an offset is subtracted, a text without offset is
\* UTC already, and a zero fraction is not written
NormalForms ==
    { <<Str(<<"0", "Z">>),                     <<"0", "+", "0">>>>,
      <<Str(<<" ", "0", ".", "5">>),           <<"0", ".", "5", "+", "0">>>>,
      <<Str(<<"0", ".", "0", "-", "0">>),      <<"0", "+", "0">>>>,
      <<Str(<<"2", ".", "5", "+", "1">>),      <<"1", ".", "5", "+", "0">>>>,
      <<Str(<<"1">>),                          <<"1", "+", "0">>>>,
      <<Str(<<"1", ".", "5", "Z">>),           <<"1", ".", "5", "+", "0">>>>,
      <<Str(<<"3", "+", "1">>),                <<"2", "+", "0">>>>,
      <<Str(<<"1", "-", "1">>),                <<"2", "+", "0">>>>,
      <<Str(<<" ", "2", ".", "0", "Z", " ">>), <<"2", "+", "0">>>> }

\* C12: a submission whose run_at is parseable (and whose bundle and text
\* are good) is accepted, and the run_at stored and the run_at returned are
\* both the UTC text of the instant that the input denotes.
C12_RunAtNormalized ==
    [][resp'.op = "schedule" =>
          \A p \in NormalForms : \A q \in SubmitRequests :
              (q[1] = GoodCookies /\ q[3] = p[1] /\ schedule_post(q[1], q[2], q[3])) =>
                  /\ resp'.code = 200
                  /\ resp'.run_at = p[2]
                  /\ resp'.id \in DOMAIN rows'
                  /\ rows'[resp'.id].run_at = p[2]]_vars

\* a run_at given with a fraction and an offset east of UTC was stored
\* and returned as the UTC text of an earlier hour
C12_Witness ==
    /\ resp.op = "schedule" /\ resp.code = 200 /\ resp.id \in Ids
    /\ resp.run_at = <<"1", ".", "5", "+", "0">>
    /\ rows[resp.id].run_at = resp.run_at
    /\ \E j \in Ids : rows[j].run_at = <<"2", "+", "0">>

\* C13: the step in which clear_scheduled answers leaves the table without
\* any row, whatever rows of whatever status it held.
C13_ClearEmpties ==
    [][resp'.op = "clear" => DOMAIN rows' = {}]_vars

\* clear_scheduled has just answered on an empty table, while the
\* dispatcher's tick still holds the row it had claimed from the table of
\* four rows that the file held, two of them finished
C13_Witness ==
    /\ resp.op = "clear" /\ Ids = {}
    /\ seq = Len(StatusOrder)
    /\ pc["t1"] = "inflight" /\ PostId("t1") = 1
    /\ Calls(3) = 1 /\ Calls(4) = 1

\* C17: the step in which post_to_linkedin answers, with 400, 200 or 500,
\* leaves the table and the id sequence as they were.
C17_PostBypassesStore ==
    [][resp'.op = "post" =>
          /\ resp'.code \in {200, 400, 500}
          /\ rows' = rows
          /\ seq' = seq]_vars

\* post_to_linkedin has just answered 500 on a remote failure, with rows of
\* all four statuses in the table
C17_Witness ==
    /\ resp.op = "post" /\ resp.code = 500 /\ reply.kind = "ret"
    /\ \A k \in 1..Len(StatusOrder) : \E i \in Ids : rows[i].status = StatusOrder[k]

\* the step ends tick t's handling of a claimed row with a failure
FailureStep(t) ==
    /\ OutcomeStep(t)
    /\ reply'.kind = "exc" \/ (reply'.kind = "ret" /\ ~reply'.success)

\* the tick is inside the loop over its batch
InLoop(p) == p \in {"claim", "exec", "inflight"}

\* C18: when the handling of a claimed row fails (the bundle does not load
\* or is no object, the API client cannot be built, or create_post reports
\* failure), the row is recorded failed and the tick moves to the next row
\* of its batch with the batch as fetched; and a tick leaves its loop only
\* from the last row of its batch, never aborted.
C18_JobIsolation ==
    [][\A t \in Ticks :
          /\ FailureStep(t) =>
                 /\ PostId(t) \in DOMAIN rows' /\ rows'[PostId(t)].status = "failed"
                 /\ idx[t] < Len(due[t]) =>
                        pc'[t] = "claim" /\ idx'[t] = idx[t] + 1 /\ due'[t] = due[t]
          /\ (InLoop(pc[t]) /\ ~InLoop(pc'[t])) =>
                 idx[t] = Len(due[t]) /\ pc'[t] = "idle"
          /\ (pc[t] \in {"exec", "inflight"} /\ pc'[t] = pc[t]) => idx'[t] = idx[t]
          /\ (pc[t] = "exec" /\ due[t][idx[t]].cookies_json.kind # "object") =>
                 posts' = posts]_vars

\* the first row of a batch held a text that is no JSON document and was
\* recorded failed, and the tick is handling the second row, whose bundle
\* is no object
C18_Witness ==
    \E t \in Ticks :
        /\ pc[t] = "exec" /\ idx[t] = 2
        /\ due[t][1].cookies_json.kind = "malformed"
        /\ rows[due[t][1].id].status = "failed"
        /\ rows[due[t][1].id].last_error = Some("json")
        /\ due[t][2].cookies_json.kind = "array"

\* what a tick can get from post_to_linkedin_with_cookies
Replies ==
    {Returned(r) : r \in RemoteResults} \cup {Raised(m) : m \in ApiErrors \cup {"json", "attr"}}

\* the outcome write that a tick makes for id on getting res
OutcomeWrite(id, res) ==
    IF res.kind = "ret" THEN OutcomeUpdate(id, res) ELSE ExceptionUpdate(id, res)

\* C14: the outcome write that a tick has just made for a job, made once
\* more on the table it produced, produces that table again: status and
\* last_error of the job stay as the first write left them, also when the
\* job's row has been deleted meanwhile, where either write changes nothing.
C14_OutcomeIdempotent ==
    [][\A t \in Ticks : OutcomeStep(t) =>
          \A i \in DOMAIN posts : \A r \in Replies :
              (i = PostId(t) /\ reply' = r) =>
                  /\ rows' = OutcomeWrite(i, r)
                  /\ OutcomeWrite(i, r)' = rows']_vars

\* a failure has just been recorded with the detail create_post returned
C14_Witness ==
    /\ reply = Returned([success |-> FALSE, error |-> Some("403")])
    /\ 1 \in Ids /\ rows[1].status = "failed" /\ rows[1].last_error = Some("403")
    /\ pc["t1"] = "idle"

\* C15: with ticks recurring, remote calls returning, no deletion and no
\* crash, a job that is pending with run_at no later than the clock is
\* eventually done or failed.
C15_EventualCompletion ==
    \A i \in 1..MaxJobs :
        (i \in Ids /\ rows[i].status = "pending" /\ InstantOf(rows[i].run_at) <= clock)
            ~> (i \in Ids /\ rows[i].status \in {"done", "failed"})

\* a job submitted with a run_at in the past has been executed and is done,
\* while a second job is still pending past its run_at
C15_Witness ==
    \E i, j \in Ids :
        /\ rows[i].status = "done" /\ InstantOf(rows[i].run_at) < clock /\ Calls(i) = 1
        /\ rows[j].status = "pending" /\ InstantOf(rows[j].run_at) <= clock

\* the ids of the batch that tick t holds
BatchIds(t) == {due[t][k].id : k \in 1..Len(due[t])}

\* C16 as claimed: a tick that has run its due query has in its batch, to
\* claim it, every job that is pending with run_at no later than its now.
C16_FirstTickPicksUp ==
    \A t \in Ticks :
        InLoop(pc[t]) =>
            \A i \in Ids :
                (rows[i].status = "pending" /\ InstantOf(rows[i].run_at) <= InstantOf(now[t]))
                    => i \in BatchIds(t)

\* C16 amended: a tick's due query leaves out a job that is pending with
\* run_at no later than its now only when it takes Limit jobs whose run_at
\* is no later than that job's; the tick then goes through its batch row by
\* row to the last, and its attempt on a row that is still pending claims
\* it; a row becomes processing only from pending, through such an attempt,
\* and never becomes pending again, so it is claimed only once.
C16_PickedUpWithinLimit ==
    [][/\ \A t \in Ticks :
             /\ FetchStep(t) =>
                    \A i \in DueAt(t) :
                        \/ pc'[t] = "claim" /\ i \in {due'[t][k].id : k \in 1..Len(due'[t])}
                        \/ /\ pc'[t] = "claim" /\ Len(due'[t]) = Limit
                           /\ \A k \in 1..Limit :
                                  InstantOf(due'[t][k].run_at) <= InstantOf(rows[i].run_at)
             /\ FetchStep(t) /\ pc'[t] = "claim" => idx'[t] = 1
             /\ (InLoop(pc[t]) /\ InLoop(pc'[t])) =>
                    /\ due'[t] = due[t]
                    /\ idx'[t] = idx[t] \/ (idx'[t] = idx[t] + 1 /\ pc'[t] = "claim")
             /\ (InLoop(pc[t]) /\ ~InLoop(pc'[t])) => idx[t] = Len(due[t])
             /\ (ClaimStep(t) /\ PostId(t) \in Ids /\ rows[PostId(t)].status = "pending") =>
                    rows'[PostId(t)].status = "processing" /\ pc'[t] = "exec"
       /\ \A i \in Ids \cap DOMAIN rows' :
             /\ (rows'[i].status = "processing" /\ rows[i].status # "processing") =>
                    /\ rows[i].status = "pending"
                    /\ \E t \in Ticks : ClaimStep(t) /\ PostId(t) = i
             /\ rows[i].status # "pending" => rows'[i].status # "pending"]_vars

\* a tick has claimed both rows of a full batch, the first of which has
\* its outcome, while a third job that was due at the tick's now is still
\* pending, left out by the limit
C16_Witness ==
    \E t \in Ticks :
        /\ pc[t] = "exec" /\ idx[t] = Limit /\ Len(due[t]) = Limit
        /\ rows[due[t][1].id].status \in {"done", "failed"}
        /\ \E i \in Ids \ BatchIds(t) :
               /\ rows[i].status = "pending"
               /\ InstantOf(rows[i].run_at) <= InstantOf(now[t])

\* the step is one in which tick t is left by a storage exception
AbortStep(t) == pc[t] # "aborted" /\ pc'[t] = "aborted"

\* C19: a storage exception that leaves a tick (from the due query, from
\* the claim, or from the outcome write and the except branch's write
\* both) ends that tick with its batch dropped and with the table and the
\* calls made as they were before the step; whenever no tick of a
\* dispatcher is running, aborted or not, the scheduler can start the next
\* one; and every due query that answers, also that of a tick after an
\* aborted one, takes the jobs that are pending and due, up to the limit.
C19_StorageErrorAbortsTick ==
    /\ [](\A t \in Ticks :
            /\ pc[t] \in {"idle", "aborted", "fetch", "claim", "exec", "inflight"}
            /\ pc[t] \in {"idle", "aborted"} =>
                   due[t] = <<>> /\ idx[t] = 0 /\ ENABLED TickStart(t))
    /\ [][\A t \in Ticks :
             /\ AbortStep(t) =>
                    /\ pc[t] \in {"fetch", "claim", "exec", "inflight"}
                    /\ rows' = rows
                    /\ posts' = posts
             /\ (FetchStep(t) /\ ~AbortStep(t) /\ resp'.op = "none") =>
                    LET b == IF pc'[t] = "idle" THEN <<>> ELSE due'[t]
                        taken == {b[k].id : k \in 1..Len(b)}
                    IN  /\ taken \subseteq DueAt(t)
                        /\ Len(b) = Min(Limit, Cardinality(DueAt(t)))]_vars

\* one job has its outcome, another was left processing by a tick that a
\* storage exception ended, and a later tick has fetched a job that is
\* still pending and is about to claim it
C19_Witness ==
    \E i, j, k \in Ids :
        /\ rows[i].status \in {"done", "failed"}
        /\ rows[j].status = "processing"
        /\ rows[k].status = "pending"
        /\ pc["t1"] = "claim" /\ PostId("t1") = k
        /\ reply = NoReply

\* C20: a row that is processing and that no tick holds stays as it is
\* until clear_scheduled deletes it: no step changes it, no call is made
\* for it, and no due query takes it.
C20_StuckProcessing ==
    [][\A i \in Ids :
          (rows[i].status = "processing" /\ \A t \in Ticks : ~Holds(t, i)) =>
              /\ posts'[i] = posts[i]
              /\ \/ i \in DOMAIN rows' /\ rows'[i] = rows[i]
                 \/ rows' = <<>> /\ resp'.op = "clear"
              /\ \A t \in Ticks :
                     (FetchStep(t) /\ pc'[t] = "claim") =>
                         \A k \in 1..Len(due'[t]) : due'[t][k].id # i
              /\ \A t \in Ticks : ~Holds(t, i)']_vars

\* a row is processing with its call made, held by no tick, and a tick
\* that started later, its now past the row's run_at, has finished another
\* job and gone idle
C20_Witness ==
    \E i, j \in Ids :
        /\ rows[i].status = "processing" /\ Calls(i) = 1
        /\ \A t \in Ticks : ~Holds(t, i)
        /\ rows[j].status = "done" /\ InstantOf(rows[j].run_at) > InstantOf(rows[i].run_at)
        /\ pc["t1"] = "idle"

\* C21: a tick whose turn comes for a batch row that is no longer pending
\* in the table (claimed by another tick meanwhile, or deleted) leaves the
\* table and the calls as they are, gets nothing from the remote side and
\* moves to the following row or ends; it does not come to hold the row.
\* A batch never lists an id twice and a tick's position never moves back,
\* so the tick does not meet the row again.
C21_ClaimReadsStore ==
    /\ [](\A t \in Ticks : \A j, k \in 1..Len(due[t]) : j # k => due[t][j].id # due[t][k].id)
    /\ [][\A t \in Ticks :
             /\ (ClaimStep(t) /\ (PostId(t) \notin Ids \/ rows[PostId(t)].status # "pending")) =>
                    /\ rows' = rows
                    /\ posts' = posts
                    /\ reply' = NoReply
                    /\ \/ pc'[t] = "idle"
                       \/ pc'[t] = "claim" /\ idx'[t] = idx[t] + 1 /\ due'[t] = due[t]
             /\ (InLoop(pc[t]) /\ InLoop(pc'[t])) => idx'[t] >= idx[t] /\ due'[t] = due[t]
             /\ (pc'[t] = "exec" /\ pc[t] # "exec") =>
                    /\ pc[t] = "claim" /\ idx'[t] = idx[t]
                    /\ PostId(t) \in Ids /\ rows[PostId(t)].status = "pending"]_vars

\* a tick has passed the first row of its batch without a call of its own:
\* the row is processing in the hands of another tick, whose call is the
\* only one made for it
C21_Witness ==
    \E t, u \in Ticks : \E i \in Ids :
        /\ t # u
        /\ pc[u] = "inflight" /\ PostId(u) = i
        /\ rows[i].status = "processing" /\ Calls(i) = 1
        /\ Len(due[t]) = 2 /\ due[t][1].id = i /\ idx[t] = 2 /\ pc[t] = "exec"

\* the step is tick t's remote call for the row in its hands
CallStep(t) == pc[t] = "exec" /\ pc'[t] = "inflight"

\* C22: when a tick makes the remote call for a job of its batch, no job
\* of the batch with a later run_at (as an instant) has been called yet,
\* every job of the batch with an earlier run_at has had its turn, and the
\* call is the one new call, made for the job whose turn it is.
C22_CallsInRunAtOrder ==
    [][\A t \in Ticks : CallStep(t) =>
          LET cur == due[t][idx[t]]
          IN  /\ \A k \in 1..Len(due[t]) :
                     /\ InstantOf(due[t][k].run_at) > InstantOf(cur.run_at) =>
                            Calls(due[t][k].id) = 0
                     /\ InstantOf(due[t][k].run_at) < InstantOf(cur.run_at) => k < idx[t]
              /\ \A i \in DOMAIN posts :
                     Len(posts'[i]) = Len(posts[i]) + (IF i = cur.id THEN 1 ELSE 0)
              /\ cur.id \in Ids /\ rows[cur.id].run_at = cur.run_at]_vars

\* a tick is making its second call, for a job with a later run_at than
\* the job of its first call
C22_Witness ==
    \E t \in Ticks :
        /\ pc[t] = "inflight" /\ idx[t] = 2
        /\ Calls(due[t][1].id) = 1 /\ Calls(due[t][2].id) = 1
        /\ InstantOf(due[t][1].run_at) < InstantOf(due[t][2].run_at)

C24_LastErrorIffFailed ==
    \A i \in Ids : (~rows[i].last_error.null) <=> (rows[i].status = "failed")

\* the table holds a job failed by an exception with its message, a job
\* done and a job in processing
C24_Witness ==
    \E i, j, k \in Ids :
        /\ rows[i].status = "failed" /\ rows[i].last_error \in {Some(e) : e \in InvokeErrors(rows[i].cookies_json)}
        /\ rows[j].status = "done" /\ rows[j].last_error = None
        /\ rows[k].status = "processing" /\ rows[k].last_error = None

\* the step is the one in which create_post returns success to tick t
PublishedStep(t) ==
    pc[t] = "inflight" /\ pc'[t] # "inflight" /\ reply'.kind = "ret" /\ reply'.success

\* C25: a job for which create_post has returned success is not recorded
\* as failed: after the step in which the call returns success, the job's
\* row, if it is in the table, does not have status failed.
C25_PublishedNeverFailed ==
    [][\A t \in Ticks : \A i \in Ids :
          (PublishedStep(t) /\ PostId(t) = i /\ i \in DOMAIN rows') =>
              rows'[i].status # "failed"]_vars

\* C26: every id in the table is one the sequence has handed out; a step
\* adds a row only under the id one past every id handed out so far, which
\* it reports, and the sequence never moves back (also through a clear), so
\* an id that has left the table never returns; hence a batch entry whose
\* id is in the table carries that row's run_at, text and credentials, and
\* every call made under an id of the table used that row's text and the
\* bundle stored for it.
C26_IdsNeverReused ==
    /\ [](Ids \subseteq 1..seq)
    /\ [][/\ seq' >= seq
          /\ \A i \in DOMAIN rows' \ Ids :
                 /\ i = seq + 1 /\ seq' = i
                 /\ resp' = [op |-> "schedule", code |-> 200, id |-> i, run_at |-> rows'[i].run_at]
          /\ resp'.op = "clear" => seq' = seq /\ due' = due /\ pc' = pc]_vars
    /\ [](\A t \in Ticks : \A k \in 1..Len(due[t]) :
             due[t][k].id \in Ids => due[t][k] = Snapshot(due[t][k].id))
    /\ [](\A i \in Ids : \A n \in 1..Len(posts[i]) :
             posts[i][n] = [text |-> rows[i].text, cookies |-> JsonLoads(rows[i].cookies_json)])

\* a tick's call for job 1 is in flight, the table was cleared after the
\* tick fetched, and the one job in the table, submitted after the clear
\* with another text and other credentials, has id 2 and no call
C26_Witness ==
    \E t \in Ticks :
        /\ pc[t] = "inflight" /\ PostId(t) = 1 /\ Calls(1) = 1
        /\ Ids = {2} /\ Calls(2) = 0
        /\ rows[2].text # due[t][idx[t]].text
        /\ rows[2].cookies_json # due[t][idx[t]].cookies_json

\* C27: a clear empties the table and leaves every tick where it is, its
\* batch and the calls made untouched; when the call of a tick whose row
\* has been deleted returns, the tick's outcome write changes nothing in
\* the table and the tick goes on to its next row or ends; and no step
\* other than an accepted submission puts a row into the table.
C27_ClearDuringPost ==
    [][/\ resp'.op = "clear" =>
             rows' = <<>> /\ pc' = pc /\ due' = due /\ idx' = idx /\ posts' = posts
       /\ \A t \in Ticks :
             (pc[t] = "inflight" /\ pc'[t] # "inflight" /\ PostId(t) \notin Ids) =>
                 /\ reply'.kind = "ret"
                 /\ rows' = rows
                 /\ \/ pc'[t] = "idle"
                    \/ pc'[t] = "claim" /\ idx'[t] = idx[t] + 1
       /\ \A i \in DOMAIN rows' \ Ids : resp'.op = "schedule" /\ resp'.id = i]_vars

\* create_post has just returned success for job 1, the only job ever
\* called, whose row a clear deleted while the call was in flight; the
\* table holds the job submitted after the clear, pending, and nothing else
C27_Witness ==
    /\ reply.kind = "ret" /\ reply.success
    /\ Calls(1) = 1 /\ Calls(2) = 0
    /\ Ids = {2} /\ rows[2].status = "pending"
    /\ \A t \in Ticks : pc[t] = "idle"

\* the rows in processing that no running tick has in its hands
Stranded == {i \in Ids : rows[i].status = "processing" /\ \A t \in Ticks : ~Holds(t, i)}

\* C29: a claim attempt makes at most one row processing, the row whose
\* turn it is, and a tick attempts a claim only when it has no row in its
\* hands; a tick that lets go of a row after its call returned or raised
\* has written that row's outcome; a tick that is killed with a row in its
\* hands leaves the table as it is; and a step adds at most one row to
\* those left in processing in nobody's hands, namely the row a killed
\* tick was holding.
C29_OneJobInHand ==
    [][/\ \A t \in Ticks :
             /\ ClaimStep(t) =>
                    \A i \in Ids :
                        (rows'[i].status = "processing" /\ rows[i].status # "processing") =>
                            i = PostId(t) /\ pc'[t] = "exec"
             /\ (OutcomeStep(t) /\ reply'.kind # "none" /\ PostId(t) \in DOMAIN rows') =>
                    rows'[PostId(t)].status \in {"done", "failed"}
             /\ (OutcomeStep(t) /\ reply'.kind = "none") => rows' = rows /\ pc'[t] = "idle"
       /\ Cardinality(Stranded' \ Stranded) <= 1
       /\ \A i \in Stranded' \ Stranded :
             \E t \in Ticks : Holds(t, i) /\ pc'[t] = "idle" /\ rows' = rows /\ reply'.kind = "none"]_vars

\* a tick was killed while its call for one job was in flight: that job is
\* processing in nobody's hands, the other job is still pending, and no
\* tick is running
C29_Witness ==
    \E i, j \in Ids :
        /\ Stranded = {i} /\ Calls(i) = 1
        /\ rows[j].status = "pending" /\ Calls(j) = 0
        /\ \A t \in Ticks : pc[t] = "idle"

=============================================================================
